---- MODULE Spec2Model ----
(***************************************************************************)
(* Model of app.py: the OAuth callbacks (callback_yandex,                  *)
(* callback_google) resolving an external identity to a row of the User    *)
(* table, the flask-login session, and the comment board                   *)
(* (comments, delete_comment, logout).                                     *)
(*                                                                         *)
(* The server handles requests concurrently, one thread and one database   *)
(* session per request, so a callback is modelled as the sequence of its   *)
(* blocking calls: the token POST, the userinfo GET, the query by          *)
(* provider id, the query by email, and the commit.  Requests that make a  *)
(* single database transaction are one action each.  Both providers are    *)
(* taken as configured (yandex_client and google_client are not None), and *)
(* a browser has one request outstanding at a time.                        *)
(*                                                                         *)
(* Spec is the whole program.  The callbacks never touch the Comment       *)
(* table and the comment board never touches the User table, so the two    *)
(* halves are checked apart: SpecResolver runs the callbacks of two        *)
(* browsers in every interleaving, SpecBoard runs the comment board from   *)
(* every session state the callbacks can leave.                            *)
(***************************************************************************)
EXTENDS Integers, Sequences, FiniteSets, TLC

\* ---------------------------------------------------------------- bounds
MaxUsers == 2
MaxComments == 2

\* Length validator of CommentForm.body
MinBody == 1
MaxBody == 500

\* ---------------------------------------------------------------- values
\* None in Python, NULL in the database
NULL == "NULL"

Clients == {"c1", "c2"}
Providers == {"yandex", "google"}
ExtIds == {"x1", "x2"}
Emails == {"e1", "e2"}
Names == {"n1"}
BodyLens == {0, 1, 500, 501}

Opt(S) == S \cup {NULL}

VARIABLES
    user_table,     \* rows of User, row i has primary key i
    comment_table,  \* rows of Comment: primary key -> user_id
    session,        \* per browser: the user id flask-login keeps in the cookie, 0 if none
    req             \* per browser: the callback in flight, or the last response received

vars == <<user_table, comment_table, session, req>>

\* ---------------------------------------------------------------- database
\* User(yandex_id=..., google_id=..., name=..., email=...)
User(yandex_id, google_id, name, email) ==
    [yandex_id |-> yandex_id, google_id |-> google_id, name |-> name, email |-> email]

UserIds == DOMAIN user_table

\* The column a provider's external id is stored in
IdColumn(P) == IF P = "yandex" THEN "yandex_id" ELSE "google_id"

\* User.query.filter_by(col=value): value None renders as "col IS NULL"
filter_byMut(col, value) ==
    IF col = "email" THEN {} ELSE {u \in UserIds : user_table[u][col] = value}
filter_by(col, value) == {u \in UserIds : user_table[u][col] = value}

\* unique=True on yandex_id, google_id, email: the rows table t may hold.
\* SQLite treats NULLs as distinct from each other.
UniqueColumnsMut(t) == TRUE
UniqueColumns(t) ==
    \A u, v \in DOMAIN t :
        u # v =>
            \A col \in {"yandex_id", "google_id", "email"} :
                t[u][col] = NULL \/ t[u][col] # t[v][col]

\* a or b, on values that are None or strings
PyOr(a, b) == IF a \notin {NULL, ""} THEN a ELSE b

\* ---------------------------------------------------------------- requests
\* no request in flight: the browser holds the response to its last request
Response(status, flash) == [pc |-> "idle", status |-> status, flash |-> flash]

Respond(c, status, flash) == req' = [req EXCEPT ![c] = Response(status, flash)]

\* an exception no handler catches: the request ends with HTTP 500 and the
\* database session is rolled back
Fault(c) ==
    /\ Respond(c, "500", "none")
    /\ UNCHANGED <<user_table, comment_table, session>>

\* login_user(user); flash(..., 'success'); return redirect(url_for('comments'))
login_user(c, u) ==
    /\ session' = [session EXCEPT ![c] = u]
    /\ Respond(c, "302:/comments", "success")

Init ==
    /\ user_table = <<>>
    /\ comment_table = <<>>
    /\ session = [c \in Clients |-> 0]
    /\ req = [c \in Clients |-> Response("200", "none")]

\* ---------------------------------------------------------------- callbacks
\* code = request.args.get('code'); prepare_token_request; requests.post(...):
\* the token endpoint answers, refuses the code, or cannot be reached
TokenRequest(c, P) ==
    /\ req[c].pc = "idle"
    /\ \E net \in {"ok", "rejected", "unreachable"} :
        req' = [req EXCEPT ![c] = [pc |-> "token", provider |-> P, net |-> net]]
    /\ UNCHANGED <<user_table, comment_table, session>>

\* parse_request_body_response(token_response.text); add_token; requests.get(uri):
\* a failed POST and a refused code both raise, nothing catches them
UserinfoRequest(c, P) ==
    /\ req[c].pc = "token"
    /\ req[c].provider = P
    /\ IF req[c].net # "ok"
       THEN Fault(c)
       ELSE /\ \E net \in {"ok", "unreachable"} :
                req' = [req EXCEPT ![c] = [pc |-> "userinfo", provider |-> P, net |-> net]]
            /\ UNCHANGED <<user_table, comment_table, session>>

\* the fields read from the resolved userinfo, ready for the first query
Identity(P, unique_id, users_email, users_name) ==
    [pc |-> "lookup_id", provider |-> P, unique_id |-> unique_id,
     users_email |-> users_email, users_name |-> users_name]

\* user_data = userinfo_response.json() and the three user_data.get(...) of
\* callback_yandex: a missing key reads as None.  The names are informational;
\* the provider is taken to send a display_name.
YandexUserinfo(c) ==
    \E id \in Opt(ExtIds), default_email \in Opt(Emails),
       real_name \in Opt(Names), display_name \in Names :
        req' = [req EXCEPT ![c] =
                    Identity("yandex", id, default_email, PyOr(real_name, display_name))]

\* the same of callback_google, taken to send a name
GoogleUserinfo(c) ==
    \E sub \in Opt(ExtIds), email \in Opt(Emails), name \in Names :
        req' = [req EXCEPT ![c] = Identity("google", sub, email, name)]

ReadUserinfo(c, P) ==
    /\ req[c].pc = "userinfo"
    /\ req[c].provider = P
    /\ IF req[c].net # "ok"
       THEN Fault(c)
       ELSE /\ IF P = "yandex" THEN YandexUserinfo(c) ELSE GoogleUserinfo(c)
            /\ UNCHANGED <<user_table, comment_table, session>>

\* user = User.query.filter_by(<provider>_id=unique_id).first(); a user found is
\* logged in as it is.  first() has no ORDER BY: any matching row.
LookupById(c, P) ==
    /\ req[c].pc = "lookup_id"
    /\ req[c].provider = P
    /\ LET found == filter_by(IdColumn(P), req[c].unique_id) IN
       IF found # {}
       THEN /\ \E user \in found : login_user(c, user)
            /\ UNCHANGED <<user_table, comment_table>>
       ELSE /\ req' = [req EXCEPT ![c].pc = "lookup_email"]
            /\ UNCHANGED <<user_table, comment_table, session>>

\* existing_user = User.query.filter_by(email=users_email).first()
LookupByEmail(c, P) ==
    /\ req[c].pc = "lookup_email"
    /\ req[c].provider = P
    /\ LET found == filter_by("email", req[c].users_email) IN
       IF found # {}
       THEN \E existing_user \in found :
                req' = [req EXCEPT ![c] =
                            [pc |-> "link", provider |-> P,
                             unique_id |-> req[c].unique_id,
                             existing_user |-> existing_user]]
       ELSE req' = [req EXCEPT ![c].pc = "insert"]
    /\ UNCHANGED <<user_table, comment_table, session>>

\* db.session.commit(): the rows are written when the unique constraints allow,
\* else IntegrityError is raised, which nothing catches
Commit(c, P, rows, user) ==
    IF UniqueColumns(rows)
    THEN /\ user_table' = rows
         /\ login_user(c, user)
         /\ UNCHANGED comment_table
    ELSE Fault(c)

\* existing_user.<provider>_id = unique_id; db.session.commit(); user = existing_user
Linked(P, existing_user, unique_id) ==
    [user_table EXCEPT ![existing_user][IdColumn(P)] = unique_id]

LinkExisting(c, P) ==
    /\ req[c].pc = "link"
    /\ req[c].provider = P
    /\ Commit(c, P, Linked(P, req[c].existing_user, req[c].unique_id), req[c].existing_user)

\* user = User(<provider>_id=unique_id, name=users_name, email=users_email)
NewUserMut(P, unique_id, users_name, users_email) ==
    User(unique_id, NULL, users_name, users_email)
NewUser(P, unique_id, users_name, users_email) ==
    IF P = "yandex"
    THEN User(unique_id, NULL, users_name, users_email)
    ELSE User(NULL, unique_id, users_name, users_email)

\* db.session.add(user); db.session.commit()
InsertNew(c, P) ==
    /\ req[c].pc = "insert"
    /\ req[c].provider = P
    /\ LET rows == Append(user_table,
                          NewUser(P, req[c].unique_id, req[c].users_name, req[c].users_email))
       IN /\ UniqueColumns(rows) => Len(user_table) < MaxUsers
          /\ Commit(c, P, rows, Len(rows))

Callback(c, P) ==
    \/ TokenRequest(c, P)
    \/ UserinfoRequest(c, P)
    \/ ReadUserinfo(c, P)
    \/ LookupById(c, P)
    \/ LookupByEmail(c, P)
    \/ LinkExisting(c, P)
    \/ InsertNew(c, P)

callback_yandex(c) == Callback(c, "yandex")

callback_google(c) == Callback(c, "google")

\* ---------------------------------------------------------------- comment board
\* current_user.is_authenticated
is_authenticated(c) == session[c] # 0

\* @login_required on a request without a user: flask-login flashes its
\* message and redirects to login_view = 'index'
Unauthorized(c) ==
    /\ Respond(c, "302:/", "message")
    /\ UNCHANGED <<user_table, comment_table, session>>

\* DataRequired(), Length(min=1, max=500)
Validate(len) == len >= MinBody /\ len <= MaxBody

\* the primary key SQLite gives a new row: the largest rowid plus one
NextId(t) == IF DOMAIN t = {} THEN 1
             ELSE 1 + CHOOSE k \in DOMAIN t : \A j \in DOMAIN t : j <= k

comments(c) ==
    /\ req[c].pc = "idle"
    /\ \E method \in {"GET", "POST"}, len \in BodyLens :
        IF is_authenticated(c) /\ method = "POST" /\ Validate(len)
        THEN /\ Cardinality(DOMAIN comment_table) < MaxComments
             /\ comment_table' = comment_table @@ (NextId(comment_table) :> session[c])
             /\ Respond(c, "302:/comments", "success")
             /\ UNCHANGED <<user_table, session>>
        ELSE /\ Respond(c, "200", "none")
             /\ UNCHANGED <<user_table, comment_table, session>>

\* comment.user_id != current_user.id, negated
OwnsCommentMut(c, comment_id) == TRUE
OwnsComment(c, comment_id) == comment_table[comment_id] = session[c]

delete_comment(c) ==
    /\ req[c].pc = "idle"
    /\ \E comment_id \in 1..(MaxComments + 1) :
        IF ~is_authenticated(c)
        THEN Unauthorized(c)
        ELSE IF comment_id \notin DOMAIN comment_table
        THEN /\ Respond(c, "404", "none")
             /\ UNCHANGED <<user_table, comment_table, session>>
        ELSE IF ~OwnsComment(c, comment_id)
        THEN /\ Respond(c, "302:/comments", "danger")
             /\ UNCHANGED <<user_table, comment_table, session>>
        ELSE /\ comment_table' = [k \in DOMAIN comment_table \ {comment_id} |-> comment_table[k]]
             /\ Respond(c, "302:/comments", "success")
             /\ UNCHANGED <<user_table, session>>

logout(c) ==
    /\ req[c].pc = "idle"
    /\ IF ~is_authenticated(c)
       THEN Unauthorized(c)
       ELSE /\ session' = [session EXCEPT ![c] = 0]
            /\ Respond(c, "302:/", "info")
            /\ UNCHANGED <<user_table, comment_table>>

\* ---------------------------------------------------------------- specifications
Next ==
    \/ \E c \in Clients : callback_yandex(c)
    \/ \E c \in Clients : callback_google(c)
    \/ \E c \in Clients : comments(c)
    \/ \E c \in Clients : delete_comment(c)
    \/ \E c \in Clients : logout(c)

Spec == Init /\ [][Next]_vars

NextResolver ==
    \/ \E c \in Clients : callback_yandex(c)
    \/ \E c \in Clients : callback_google(c)

SpecResolver == Init /\ [][NextResolver]_vars

\* The comment board alone, from every state the callbacks can leave it in:
\* accounts created by first sign-ins, each browser signed in as one of
\* them or as nobody, no comment yet.
SignUps == {NewUser(P, id, name, email) :
                P \in Providers, id \in ExtIds, name \in Names, email \in Emails}

InitBoard ==
    /\ user_table \in {t \in UNION {[1..n -> SignUps] : n \in 0..MaxUsers} : UniqueColumns(t)}
    /\ comment_table = <<>>
    /\ session \in [Clients -> 0..Len(user_table)]
    /\ req = [c \in Clients |-> Response("200", "none")]

NextBoard ==
    \/ \E c \in Clients : comments(c)
    \/ \E c \in Clients : delete_comment(c)
    \/ \E c \in Clients : logout(c)

SpecBoard == InitBoard /\ [][NextBoard]_vars

\* ---------------------------------------------------------------- properties
IdColumns == {"yandex_id", "google_id"}

\* the request of browser c moved: a callback step, or a new response
Stepped(c) == req'[c] # req[c]

\* browser c was answered with the redirect to /comments and this notice
Redirected(c, flash) == req'[c] = Response("302:/comments", flash)

\* the rows holding value in column col
Holders(col, value) == {u \in UserIds : user_table[u][col] = value}

\* c's callback carries an external id and no row holds it
FreshId(c) ==
    /\ req[c].unique_id # NULL
    /\ Holders(IdColumn(req[c].provider), req[c].unique_id) = {}

\* C1: in every reachable state no two distinct accounts hold the same
\* non-null yandex_id, the same non-null google_id or the same non-null email.
C1_UniqueAccounts ==
    \A u, v \in UserIds :
        u # v =>
            /\ user_table[u].yandex_id = NULL \/ user_table[u].yandex_id # user_table[v].yandex_id
            /\ user_table[u].google_id = NULL \/ user_table[u].google_id # user_table[v].google_id
            /\ user_table[u].email = NULL \/ user_table[u].email # user_table[v].email

\* a sign-in is about to insert an external id that an account with another
\* email took while it was looking up
C1_Witness ==
    \E c \in Clients :
        /\ req[c].pc = "insert"
        /\ req[c].unique_id # NULL
        /\ \E u \in Holders(IdColumn(req[c].provider), req[c].unique_id) :
                user_table[u].email # req[c].users_email

\* the three steps of a merging callback of browser c: the id query misses,
\* the email query finds A, the commit links A
C2_Merge(c) ==
    /\ (req[c].pc = "lookup_id" /\ FreshId(c) /\ Stepped(c))
            => req'[c] = [req[c] EXCEPT !.pc = "lookup_email"]
               /\ UNCHANGED <<user_table, session>>
    /\ \A A \in UserIds :
        (/\ req[c].pc = "lookup_email"
         /\ req[c].users_email # NULL
         /\ user_table[A].email = req[c].users_email
         /\ Stepped(c))
            => /\ req'[c].pc = "link"
               /\ req'[c].existing_user = A
               /\ req'[c].unique_id = req[c].unique_id
               /\ UNCHANGED <<user_table, session>>
    /\ \A A \in UserIds :
        (/\ req[c].pc = "link"
         /\ req[c].existing_user = A
         /\ FreshId(c)
         /\ Stepped(c))
            => /\ Len(user_table') = Len(user_table)
               /\ \A u \in UserIds \ {A} : user_table'[u] = user_table[u]
               /\ user_table'[A][IdColumn(req[c].provider)] = req[c].unique_id
               /\ \A col \in {"yandex_id", "google_id", "name", "email"} \ {IdColumn(req[c].provider)} :
                        user_table'[A][col] = user_table[A][col]
               /\ session'[c] = A
               /\ Redirected(c, "success")

\* C2: a callback carrying an external id no account holds and the email of
\* an existing account A goes from the id query to the email query, finds A,
\* and its commit creates no account, sets A's id for this provider, leaves
\* everything else of A and every other row as it was, and signs in as A.
C2_CrossProviderMerge == [][\A c \in Clients : C2_Merge(c)]_vars

\* one account, holding an id of each provider, and a browser signed in as it
C2_Witness ==
    /\ Len(user_table) = 1
    /\ user_table[1].yandex_id # NULL
    /\ user_table[1].google_id # NULL
    /\ user_table[1].email # NULL
    /\ \E c \in Clients : session[c] = 1 /\ req[c] = Response("302:/comments", "success")

\* the id query of browser c finds the account holding the id it carries
C3_Returning(c) ==
    \A a \in UserIds :
        (/\ req[c].pc = "lookup_id"
         /\ req[c].unique_id # NULL
         /\ user_table[a][IdColumn(req[c].provider)] = req[c].unique_id
         /\ Stepped(c))
            => /\ session'[c] = a
               /\ Redirected(c, "success")
               /\ user_table' = user_table

\* the account an external id resolves to is the same after the step
C3_SameAccount ==
    \A col \in IdColumns, x \in ExtIds, a \in UserIds :
        Holders(col, x) = {a} => {u \in DOMAIN user_table' : user_table'[u][col] = x} = {a}

\* C3: once an account holds (P, externalId), a callback of P carrying that
\* id is signed in as that account and changes no row, and the account the
\* id resolves to stays the same whatever sign-ins happen in between.
C3_Idempotent == [][(\A c \in Clients : C3_Returning(c)) /\ C3_SameAccount]_vars

\* the three steps of a creating callback of browser c: both queries miss,
\* the commit inserts
C4_Create(c) ==
    LET fresh_email == req[c].users_email # NULL /\ Holders("email", req[c].users_email) = {}
    IN
    /\ (req[c].pc = "lookup_id" /\ FreshId(c) /\ fresh_email /\ Stepped(c))
            => req'[c] = [req[c] EXCEPT !.pc = "lookup_email"]
               /\ UNCHANGED <<user_table, session>>
    /\ (req[c].pc = "lookup_email" /\ FreshId(c) /\ fresh_email /\ Stepped(c))
            => req'[c] = [req[c] EXCEPT !.pc = "insert"]
               /\ UNCHANGED <<user_table, session>>
    /\ (req[c].pc = "insert" /\ FreshId(c) /\ fresh_email /\ Stepped(c))
            => /\ Len(user_table') = Len(user_table) + 1
               /\ \A u \in UserIds : user_table'[u] = user_table[u]
               /\ LET new == user_table'[Len(user_table) + 1] IN
                    /\ new[IdColumn(req[c].provider)] = req[c].unique_id
                    /\ new.email = req[c].users_email
                    /\ \A col \in IdColumns \ {IdColumn(req[c].provider)} : new[col] = NULL
               /\ session'[c] = Len(user_table) + 1
               /\ Redirected(c, "success")

\* C4: a callback carrying an external id and an email that no account
\* holds goes through both queries without finding a row, and its commit
\* adds one row with this provider's id and the email set and the other
\* provider's id unset, changes no other row, and signs in as the new row.
C4_FreshIdentityCreates == [][\A c \in Clients : C4_Create(c)]_vars

\* the first account of the store, made by a sign-in of one provider, and a
\* browser signed in as it
C4_Witness ==
    /\ Len(user_table) = 1
    /\ user_table[1].email # NULL
    /\ \E col \in IdColumns :
            user_table[1][col] # NULL /\ \A other \in IdColumns \ {col} : user_table[1][other] = NULL
    /\ \E c \in Clients : session[c] = 1 /\ req[c] = Response("302:/comments", "success")

\* the accounts holding the external id or the email c's callback carries
C5_Rivals(c) ==
    {u \in UserIds :
        \/ req[c].unique_id # NULL
            /\ user_table[u][IdColumn(req[c].provider)] = req[c].unique_id
        \/ req[c].users_email # NULL /\ user_table[u].email = req[c].users_email}

\* C5: a callback whose insert the unique constraints reject, because a
\* concurrent callback committed the same email or external id first, does
\* not end in an error: it is signed in to the account holding that value.
C5_RetryAfterConflict ==
    [][\A c \in Clients :
        (req[c].pc = "insert" /\ C5_Rivals(c) # {} /\ Stepped(c))
            => /\ Redirected(c, "success")
               /\ session'[c] \in C5_Rivals(c)]_vars

\* C6: a callback whose token exchange is refused or whose call to the
\* provider fails ends with the redirect to /comments and an error notice,
\* and changes no account, comment or session.
C6_ProviderFailure ==
    [][\A c \in Clients :
        (req[c].pc \in {"token", "userinfo"} /\ req[c].net # "ok" /\ Stepped(c))
            => /\ Redirected(c, "danger")
               /\ UNCHANGED <<user_table, comment_table, session>>]_vars

\* C7: a callback whose userinfo carries no external id writes nothing and
\* signs nobody in.
C7_MalformedUserinfo ==
    [][\A c \in Clients :
        (/\ req[c].pc \in {"lookup_id", "lookup_email", "link", "insert"}
         /\ req[c].unique_id = NULL
         /\ Stepped(c))
            => UNCHANGED <<user_table, session>>]_vars

\* C8: a callback without an email whose external id no account holds
\* always goes on to create an account, and the email query never selects
\* an account whose email is unset.
C8_NoEmailNoMerge ==
    [][\A c \in Clients :
        /\ (req[c].pc = "lookup_email" /\ req[c].users_email = NULL /\ Stepped(c))
                => req'[c].pc = "insert"
        /\ (req[c].pc = "lookup_email" /\ req'[c].pc = "link")
                => user_table[req'[c].existing_user].email # NULL]_vars

\* comment k is gone after the step, or is another user's
C9_Removed(k) ==
    k \notin DOMAIN comment_table' \/ comment_table'[k] # comment_table[k]

\* C9: a comment is removed only by a request of a browser signed in as the
\* comment's owner, and a delete answered with the notice that only one's
\* own comments can be deleted comes from a signed-in browser that does not
\* own some comment, redirects to /comments and removes nothing.
C9_OwnerOnlyDelete ==
    [][/\ \A k \in DOMAIN comment_table :
            C9_Removed(k) =>
                \E c \in Clients :
                    /\ session[c] = comment_table[k]
                    /\ req[c].pc = "idle"
                    /\ Redirected(c, "success")
                    /\ \A d \in Clients \ {c} : req'[d] = req[d]
       /\ \A c \in Clients :
            (Stepped(c) /\ req'[c].pc = "idle" /\ req'[c].flash = "danger")
                => /\ comment_table' = comment_table
                   /\ Redirected(c, "danger")
                   /\ is_authenticated(c)
                   /\ \E k \in DOMAIN comment_table : comment_table[k] # session[c]]_vars

\* a signed-in browser was refused the deletion of another account's comment
C9_Witness ==
    \E c \in Clients :
        /\ req[c] = Response("302:/comments", "danger")
        /\ is_authenticated(c)
        /\ \E k \in DOMAIN comment_table : comment_table[k] # session[c]

\* C10: an external id an account holds is never changed or cleared.
C10_NeverOverwritten ==
    [][\A u \in UserIds, col \in IdColumns :
        user_table[u][col] # NULL => user_table'[u][col] = user_table[u][col]]_vars

====
